---- MODULE Spec2Model ----
(***************************************************************************)
(* Model of app.py: the Document / InvertedIndex / SearchEngine classes,   *)
(* the module-level start-up code that builds them, and the two           *)
(* display_results presenters.                                            *)
(*                                                                         *)
(* A Python str is a sequence of one-character strings, so that           *)
(* str.split, str.join, str.count and str.lower are modelled by what they *)
(* do.  A Python float is a rational [num, den] over fixed-point natural  *)
(* logarithms: num / (den * LnScale) is the value.                        *)
(***************************************************************************)
EXTENDS Integers, Sequences, FiniteSets, TLC

VARIABLES
    preprocessed_books,  \* app.py:203  list of {title, author, description}
    documents,           \* app.py:204  list of Document objects
    index,               \* SearchEngine.index.index (InvertedIndex.index)
    idf_scores,          \* SearchEngine.idf_scores
    pc,                  \* position of the program
    op,                  \* the last call served
    query,               \* the argument of the last search call
    ranking,             \* return value / argument: list of (doc_id, score)
    matching_book_ids,   \* return value of InvertedIndex.search
    results,             \* what a display_results call emitted
    display_args,        \* threshold and page_size of the last display_results call
    raised               \* the exception that ended the program, or "none"

vars == <<preprocessed_books, documents, index, idf_scores, pc, op, query,
          ranking, matching_book_ids, results, display_args, raised>>

(***************************************************************************)
(* Bounds of the model.                                                    *)
(***************************************************************************)
MaxDocs == 2
MaxTokens == 3
MaxQueryTokens == 2
MaxHigh == 51
MaxEdge == 1
MaxLow == 1
MaxPageSize == 3

(***************************************************************************)
(* Python str and list primitives.                                         *)
(***************************************************************************)
Range(s) == {s[i] : i \in DOMAIN s}

\* F applied to the value of x: a local variable, computed once
With(x, F(_)) == CHOOSE r \in {F(v) : v \in {x}} : TRUE

RECURSIVE Join(_, _)
Join(strs, sep) ==
    IF strs = <<>> THEN <<>>
    ELSE IF Len(strs) = 1 THEN strs[1]
    ELSE strs[1] \o sep \o Join(Tail(strs), sep)

RECURSIVE SplitAcc(_, _, _)
SplitAcc(s, cur, acc) ==
    IF s = <<>> THEN (IF cur = <<>> THEN acc ELSE Append(acc, cur))
    ELSE IF Head(s) = " "
         THEN SplitAcc(Tail(s), <<>>, IF cur = <<>> THEN acc ELSE Append(acc, cur))
         ELSE SplitAcc(Tail(s), Append(cur, Head(s)), acc)

Split(s) == SplitAcc(s, <<>>, <<>>)

StartsWith(s, sub) == Len(s) >= Len(sub) /\ SubSeq(s, 1, Len(sub)) = sub

RECURSIVE StrCount(_, _)
StrCount(s, sub) ==
    IF Len(s) < Len(sub) THEN 0
    ELSE IF StartsWith(s, sub)
         THEN 1 + StrCount(SubSeq(s, Len(sub) + 1, Len(s)), sub)
         ELSE StrCount(Tail(s), sub)

RECURSIVE ListCount(_, _)
ListCount(list, x) ==
    IF list = <<>> THEN 0
    ELSE (IF Head(list) = x THEN 1 ELSE 0) + ListCount(Tail(list), x)

LowerChar(c) ==
    CASE c = "A" -> "a"
      [] c = "B" -> "b"
      [] OTHER -> c

Lower(s) == [i \in DOMAIN s |-> LowerChar(s[i])]

(***************************************************************************)
(* Floats.                                                                 *)
(***************************************************************************)
LnScale == 100000

LnPrime(p) ==
    CASE p = 2 -> 69315
      [] p = 3 -> 109861
      [] p = 5 -> 160944
      [] p = 7 -> 194591
      [] p = 11 -> 239790
      [] p = 13 -> 256495

SmallestFactor(n) == CHOOSE p \in 2..n : n % p = 0 /\ \A r \in 2..(p - 1) : n % r # 0

RECURSIVE Ln(_)
Ln(n) == IF n = 1 THEN 0
         ELSE LnPrime(SmallestFactor(n)) + Ln(n \div SmallestFactor(n))

\* math.log(a / b) for positive integers a, b
LogRatio(a, b) == Ln(a) - Ln(b)

Zero == [num |-> 0, den |-> 1]
Float(n) == [num |-> n * LnScale, den |-> 1]
FGeq(x, y) == x.num * y.den >= y.num * x.den
FEq(x, y) == x.num * y.den = y.num * x.den
FLess(x, y) == x.num * y.den < y.num * x.den

FAdd(x, y) ==
    IF x.den = y.den THEN [num |-> x.num + y.num, den |-> x.den]
    ELSE [num |-> x.num * y.den + y.num * x.den, den |-> x.den * y.den]

\* tf * idf * k: tf is the plain ratio num/den, idf a float, k an int
FMul3(tf, idf, k) == [num |-> tf.num * idf.num * k, den |-> tf.den * idf.den]

(***************************************************************************)
(* Python dict: a function; only the inverted index is iterated, so only   *)
(* it carries its insertion order.                                         *)
(***************************************************************************)
EmptyDict == [x \in {} |-> 0]

DictSet(d, k, v) == [x \in DOMAIN d \cup {k} |-> IF x = k THEN v ELSE d[x]]

(***************************************************************************)
(* class Document                                                          *)
(***************************************************************************)
Document(doc_id, title, author, description) ==
    LET text == Join(<<title, author, description>>, <<" ">>)
    IN  [doc_id |-> doc_id,
         title |-> title,
         author |-> author,
         description |-> description,
         text |-> text,
         term_frequencies |-> EmptyDict,
         length |-> Len(Split(text))]

\* compute_term_frequencies before the loop divides unguarded
ComputeTermFrequenciesEager(doc) ==
    IF doc.length = 0
    THEN [raised |-> "ZeroDivisionError", term_frequencies |-> doc.term_frequencies]
    ELSE [raised |-> "none",
          term_frequencies |->
              [term \in Range(Split(doc.text)) |->
                  [num |-> StrCount(doc.text, term), den |-> doc.length]]]

\* the loop body divides by self.length once per term of set(self.text.split())
ComputeTermFrequencies(doc) ==
    LET terms == Range(Split(doc.text))
    IN  IF terms # {} /\ doc.length = 0
        THEN [raised |-> "ZeroDivisionError", term_frequencies |-> doc.term_frequencies]
        ELSE [raised |-> "none",
              term_frequencies |->
                  [term \in terms |->
                      [num |-> StrCount(doc.text, term), den |-> doc.length]]]

(***************************************************************************)
(* class InvertedIndex: self.index is a defaultdict(list); keys holds the  *)
(* keys in order of first insertion, the order .items() iterates in.       *)
(***************************************************************************)
EmptyIndex == [keys |-> <<>>, postings |-> EmptyDict]

\* defaultdict.__getitem__: a missing key is inserted with an empty list
DefaultDictGetItem(idx, key) ==
    IF key \in DOMAIN idx.postings THEN idx
    ELSE [keys |-> Append(idx.keys, key),
          postings |-> DictSet(idx.postings, key, <<>>)]

\* a lookup written self.index[key] instead of self.index.get(key, [])
IndexSubscript(idx, key, default) ==
    [value |-> DefaultDictGetItem(idx, key).postings[key],
     index |-> DefaultDictGetItem(idx, key)]

\* self.index.get(key, default): the value read and the index it leaves
IndexGet(idx, key, default) ==
    [value |-> IF key \in DOMAIN idx.postings THEN idx.postings[key] ELSE default,
     index |-> idx]

RECURSIVE add_tokens_to_index(_, _, _, _)
add_tokens_to_index(idx, book_id, tokens, field) ==
    IF tokens = <<>> THEN idx
    ELSE LET key == <<Head(tokens), field>>
             d == DefaultDictGetItem(idx, key)
             next == [keys |-> d.keys,
                      postings |-> [d.postings EXCEPT ![key] = Append(@, book_id)]]
         IN  add_tokens_to_index(next, book_id, Tail(tokens), field)

\* index_data that forgets the author field
RECURSIVE index_data_no_author(_, _)
index_data_no_author(idx, docs) ==
    IF docs = <<>> THEN idx
    ELSE LET doc == Head(docs)
             i1 == add_tokens_to_index(idx, doc.doc_id, Split(doc.title), "title")
             i3 == add_tokens_to_index(i1, doc.doc_id, Split(doc.description), "description")
         IN  index_data_no_author(i3, Tail(docs))

RECURSIVE index_data_loop(_, _)
index_data_loop(idx, docs) ==
    IF docs = <<>> THEN idx
    ELSE LET doc == Head(docs)
             i1 == add_tokens_to_index(idx, doc.doc_id, Split(doc.title), "title")
             i2 == add_tokens_to_index(i1, doc.doc_id, Split(doc.author), "author")
             i3 == add_tokens_to_index(i2, doc.doc_id, Split(doc.description), "description")
         IN  index_data_loop(i3, Tail(docs))

index_data(idx, docs) == index_data_loop(idx, docs)

Fields == <<"title", "author", "description">>

\* the three lookups of one query token, and the index they leave behind
RECURSIVE LookupFields(_, _, _, _)
LookupFields(idx, token, i, acc) ==
    IF i > Len(Fields) THEN [value |-> acc, index |-> idx]
    ELSE LET g == IndexGet(idx, <<token, Fields[i]>>, <<>>)
         IN  LookupFields(g.index, token, i + 1, acc \o g.value)

RECURSIVE InvertedIndexSearchLoop(_, _, _)
InvertedIndexSearchLoop(idx, query_tokens, matching) ==
    IF query_tokens = <<>> THEN [value |-> Range(matching), index |-> idx]
    ELSE LET l == LookupFields(idx, Head(query_tokens), 1, <<>>)
         IN  InvertedIndexSearchLoop(l.index, Tail(query_tokens), matching \o l.value)

\* InvertedIndex.search: list(set(...)) is returned as the set of ids
InvertedIndexSearch(idx, q) == InvertedIndexSearchLoop(idx, Split(q), <<>>)

(***************************************************************************)
(* class SearchEngine                                                      *)
(***************************************************************************)
Idf(num_docs, doc_list) == [num |-> LogRatio(num_docs, 1 + Len(doc_list)), den |-> 1]

\* a table that keeps the first value computed for a term
RECURSIVE ComputeIdfFirstWins(_, _, _, _)
ComputeIdfFirstWins(num_docs, idx, i, scores) ==
    IF i > Len(idx.keys) THEN scores
    ELSE LET term == idx.keys[i][1]
             doc_list == idx.postings[idx.keys[i]]
         IN  ComputeIdfFirstWins(num_docs, idx, i + 1,
                 IF Lower(term) \in DOMAIN scores THEN scores
                 ELSE DictSet(scores, Lower(term), Idf(num_docs, doc_list)))

compute_idf_scores_first_wins(docs, idx) == ComputeIdfFirstWins(Len(docs), idx, 1, EmptyDict)

\* for term_field, doc_list in self.index.index.items()
RECURSIVE ComputeIdfLoop(_, _, _, _)
ComputeIdfLoop(num_docs, idx, i, scores) ==
    IF i > Len(idx.keys) THEN scores
    ELSE LET term == idx.keys[i][1]
             doc_list == idx.postings[idx.keys[i]]
         IN  ComputeIdfLoop(num_docs, idx, i + 1,
                 DictSet(scores, Lower(term), Idf(num_docs, doc_list)))

compute_idf_scores(docs, idx) == ComputeIdfLoop(Len(docs), idx, 1, EmptyDict)

\* the keys of query_vector in insertion order: first occurrences
RECURSIVE FirstOccurrences(_, _)
FirstOccurrences(list, acc) ==
    IF list = <<>> THEN acc
    ELSE FirstOccurrences(Tail(list),
             IF Head(list) \in Range(acc) THEN acc ELSE Append(acc, Head(list)))

QueryVector(query_terms) ==
    [term \in Range(query_terms) |-> ListCount(query_terms, term)]

\* the inner loop of search for one document
RECURSIVE ScoreLoop(_, _, _, _, _)
ScoreLoop(doc, terms, query_vector, idf, score) ==
    IF terms = <<>> THEN [raised |-> "none", score |-> score]
    ELSE LET term == Head(terms)
         IN  IF term \in DOMAIN doc.term_frequencies
             THEN IF term \notin DOMAIN idf
                  THEN [raised |-> "KeyError", score |-> score]
                  ELSE ScoreLoop(doc, Tail(terms), query_vector, idf,
                           FAdd(score, FMul3(doc.term_frequencies[term], idf[term],
                                             1 + query_vector[term])))
             ELSE ScoreLoop(doc, Tail(terms), query_vector, idf, score)

\* the outer loop of search: one (doc_id, score) per document
RECURSIVE RankLoop(_, _, _, _, _)
RankLoop(docs, terms, query_vector, idf, acc) ==
    IF docs = <<>> THEN [raised |-> "none", ranking |-> acc]
    ELSE LET s == ScoreLoop(Head(docs), terms, query_vector, idf, Zero)
         IN  IF s.raised # "none" THEN [raised |-> s.raised, ranking |-> acc]
             ELSE RankLoop(Tail(docs), terms, query_vector, idf,
                      Append(acc, [doc_id |-> Head(docs).doc_id, score |-> s.score]))

\* a loop that appends only the documents that matched
RECURSIVE RankLoopMatchedOnly(_, _, _, _, _)
RankLoopMatchedOnly(docs, terms, query_vector, idf, acc) ==
    IF docs = <<>> THEN [raised |-> "none", ranking |-> acc]
    ELSE LET s == ScoreLoop(Head(docs), terms, query_vector, idf, Zero)
         IN  IF s.raised # "none" THEN [raised |-> s.raised, ranking |-> acc]
             ELSE RankLoopMatchedOnly(Tail(docs), terms, query_vector, idf,
                      IF s.score.num = 0 THEN acc
                      ELSE Append(acc, [doc_id |-> Head(docs).doc_id, score |-> s.score]))

ScoreMatchedOnly(docs, terms, query_vector, idf) ==
    RankLoopMatchedOnly(docs, terms, query_vector, idf, <<>>)

ScoreDocuments(docs, terms, query_vector, idf) ==
    RankLoop(docs, terms, query_vector, idf, <<>>)

\* a descending sort that reverses the order of equal elements
SortByScoreUnstable(list) ==
    With([i \in DOMAIN list |->
             Cardinality({j \in DOMAIN list : FLess(list[i].score, list[j].score)})
             + Cardinality({j \in DOMAIN list :
                               j > i /\ FEq(list[j].score, list[i].score)}) + 1],
         LAMBDA pos : [k \in DOMAIN list |-> list[CHOOSE i \in DOMAIN list : pos[i] = k]])

\* list.sort(key=lambda x: x[1], reverse=True): the sort is stable, so an
\* element lands after the greater ones and after the equal ones before it
SortByScoreDesc(list) ==
    With([i \in DOMAIN list |->
             Cardinality({j \in DOMAIN list : FLess(list[i].score, list[j].score)})
             + Cardinality({j \in DOMAIN list :
                               j < i /\ FEq(list[j].score, list[i].score)}) + 1],
         LAMBDA pos : [k \in DOMAIN list |-> list[CHOOSE i \in DOMAIN list : pos[i] = k]])

\* SearchEngine.search
SearchEngineSearch(docs, idf, q) ==
    LET query_terms == Split(Lower(q))
        query_vector == QueryVector(query_terms)
        r == ScoreDocuments(docs, FirstOccurrences(query_terms, <<>>), query_vector, idf)
    IN  [raised |-> r.raised, ranking |-> SortByScoreDesc(r.ranking)]

(***************************************************************************)
(* The presenters.  What is printed (or joined into the returned string)   *)
(* is a message, or the pages in order, each a header and its entries.     *)
(***************************************************************************)
InteractivePageSize == 5
InteractiveMaxPages == 10
DefaultPageSize == 10

Half == [num |-> LnScale, den |-> 2]
InteractiveThreshold == Float(1)
DefaultThreshold == Half

Min(a, b) == IF a <= b THEN a ELSE b

\* what a call emits: a message, or pages of a header and its entries
Message(text, threshold) == [message |-> text, threshold |-> threshold, pages |-> <<>>]
NoMatch == Message("No matching books found.", Zero)
NoMatchAbove(threshold) == Message("No matching books found above threshold", threshold)
Emitted(pages) == [message |-> "", threshold |-> Zero, pages |-> pages]
NothingEmitted == Emitted(<<>>)

\* [(doc_id, score) for doc_id, score in ranking if score >= threshold]
Filter(list, threshold) == SelectSeq(list, LAMBDA e : FGeq(e.score, threshold))

\* for idx in range(start_index, end_index): one line per entry
Entries(filtered, start_index, end_index, docs, books) ==
    [k \in 1..(end_index - start_index) |->
        LET pair == filtered[start_index + k]
            doc == docs[pair.doc_id + 1]
            original_book_info == books[doc.doc_id + 1]
        IN  [doc_id |-> doc.doc_id, title |-> original_book_info.title,
             author |-> original_book_info.author, score |-> pair.score]]

\* for page_num in range(num_pages): "Page n:" and the entries of the page
Pages(filtered, num_pages, page_size, docs, books) ==
    [p \in 1..num_pages |->
        LET page_num == p - 1
            start_index == page_num * page_size
            end_index == Min(start_index + page_size, Len(filtered))
        IN  [header |-> page_num + 1,
             entries |-> Entries(filtered, start_index, end_index, docs, books)]]

\* a page count that drops the last, partial page
NumPagesFloor(n) == Min(n \div InteractivePageSize, InteractiveMaxPages)

\* min(len(filtered_ranking) // 5 + 1, 10)
NumPagesInteractive(n) == Min(n \div InteractivePageSize + 1, InteractiveMaxPages)

\* math.ceil(len(filtered_ranking) / page_size)
NumPagesBatch(n, page_size) == (n + page_size - 1) \div page_size

\* module-level display_results(ranking)
DisplayResults(rnk, docs, books) ==
    IF rnk = <<>> THEN NoMatch
    ELSE With(Filter(rnk, InteractiveThreshold), LAMBDA filtered_ranking :
             IF filtered_ranking = <<>> THEN NoMatchAbove(InteractiveThreshold)
             ELSE With(SortByScoreDesc(filtered_ranking), LAMBDA sorted :
                      Emitted(Pages(sorted, NumPagesInteractive(Len(sorted)),
                                    InteractivePageSize, docs, books))))

\* SearchEngine.display_results(ranking, threshold, page_size)
SearchEngineDisplayResults(rnk, threshold, page_size, docs, books) ==
    IF rnk = <<>> THEN NoMatch
    ELSE With(Filter(rnk, threshold), LAMBDA filtered_ranking :
             IF filtered_ranking = <<>> THEN NoMatchAbove(threshold)
             ELSE With(SortByScoreDesc(filtered_ranking), LAMBDA sorted :
                      Emitted(Pages(sorted, NumPagesBatch(Len(sorted), page_size),
                                    page_size, docs, books))))

(***************************************************************************)
(* Inputs.  preprocess_data returns records whose fields are space-joined  *)
(* lower-case tokens (app.py:56, 65); queries come from the form as typed. *)
(***************************************************************************)
Vocab == {<<"a">>, <<"a", "b">>}
QueryVocab == {<<"A">>, <<"a", "b">>}

RECURSIVE Lists(_, _)
Lists(S, n) == IF n = 0 THEN {<<>>}
               ELSE {Append(l, x) : l \in Lists(S, n - 1), x \in S}

FieldsWith(n) == {Join(l, <<" ">>) : l \in Lists(Vocab, n)}

RecordsWith(t) ==
    UNION {UNION {{[title |-> x, author |-> y, description |-> z] :
                      x \in FieldsWith(a), y \in FieldsWith(b), z \in FieldsWith(t - a - b)} :
                  b \in 0..(t - a)} : a \in 0..t}

RecordsByCount == [t \in 0..MaxTokens |-> RecordsWith(t)]

\* the lists of n records holding at most t tokens in all
RECURSIVE Corpora(_, _)
Corpora(n, t) ==
    IF n = 0 THEN {<<>>}
    ELSE UNION {{<<r>> \o c : r \in RecordsByCount[k], c \in Corpora(n - 1, t - k)} :
                k \in 0..t}

AllCorpora == UNION {Corpora(n, MaxTokens) : n \in 0..MaxDocs}

Queries == UNION {{Join(l, <<" ">>) : l \in Lists(QueryVocab, n)} : n \in 0..MaxQueryTokens}

Thresholds == {DefaultThreshold, InteractiveThreshold}
PageSizes == (1..MaxPageSize) \cup {DefaultPageSize}

NoArgs == [threshold |-> Zero, page_size |-> 0]

(***************************************************************************)
(* The program: app.py:203-212 at import, then the calls it serves.        *)
(***************************************************************************)
Init ==
    /\ preprocessed_books \in AllCorpora
    /\ documents = <<>>
    /\ index = EmptyIndex
    /\ idf_scores = EmptyDict
    /\ pc = "load"
    /\ op = "none"
    /\ query = <<>>
    /\ ranking = <<>>
    /\ matching_book_ids = {}
    /\ results = NothingEmitted
    /\ display_args = NoArgs
    /\ raised = "none"

\* one iteration of the loop at app.py:205-211
BuildDocument ==
    /\ pc = "load"
    /\ Len(documents) < Len(preprocessed_books)
    /\ LET book_id == Len(documents)
           book == preprocessed_books[book_id + 1]
           doc == Document(book_id, book.title, book.author, book.description)
           tf == ComputeTermFrequencies(doc)
       IN  IF tf.raised # "none"
           THEN /\ raised' = tf.raised
                /\ pc' = "crashed"
                /\ UNCHANGED documents
           ELSE /\ documents' = Append(documents,
                                       [doc EXCEPT !.term_frequencies = tf.term_frequencies])
                /\ UNCHANGED <<raised, pc>>
    /\ UNCHANGED <<preprocessed_books, index, idf_scores, op, query, ranking,
                   matching_book_ids, results, display_args>>

\* search_engine = SearchEngine(documents): app.py:212, 139-143
ConstructSearchEngine ==
    /\ pc = "load"
    /\ Len(documents) = Len(preprocessed_books)
    /\ index' = index_data(EmptyIndex, documents)
    /\ idf_scores' = compute_idf_scores(documents, index')
    /\ pc' = "serve"
    /\ UNCHANGED <<preprocessed_books, documents, op, query, ranking,
                   matching_book_ids, results, display_args, raised>>

\* the POST route: search_engine.search(query), then display_results(ranking)
IndexPost(q) ==
    /\ pc = "serve"
    /\ LET r == SearchEngineSearch(documents, idf_scores, q)
       IN  IF r.raised # "none"
           THEN /\ raised' = r.raised
                /\ pc' = "crashed"
                /\ ranking' = <<>>
                /\ results' = NothingEmitted
           ELSE /\ ranking' = r.ranking
                /\ results' = DisplayResults(r.ranking, documents, preprocessed_books)
                /\ pc' = "respond"
                /\ UNCHANGED raised
    /\ op' = "search"
    /\ query' = q
    /\ matching_book_ids' = {}
    /\ display_args' = [threshold |-> InteractiveThreshold, page_size |-> InteractivePageSize]
    /\ UNCHANGED <<preprocessed_books, documents, index, idf_scores>>

\* search_engine.index.search(query)
IndexSearch(q) ==
    /\ pc = "serve"
    /\ LET r == InvertedIndexSearch(index, q)
       IN  /\ matching_book_ids' = r.value
           /\ index' = r.index
    /\ op' = "index_search"
    /\ query' = q
    /\ ranking' = <<>>
    /\ results' = NothingEmitted
    /\ display_args' = NoArgs
    /\ pc' = "respond"
    /\ UNCHANGED <<preprocessed_books, documents, idf_scores, raised>>

\* the call returns: its arguments, locals and return value are gone
Return ==
    /\ pc = "respond"
    /\ pc' = "serve"
    /\ op' = "none"
    /\ query' = <<>>
    /\ ranking' = <<>>
    /\ matching_book_ids' = {}
    /\ results' = NothingEmitted
    /\ display_args' = NoArgs
    /\ UNCHANGED <<preprocessed_books, documents, index, idf_scores, raised>>

Next ==
    \/ BuildDocument
    \/ ConstructSearchEngine
    \/ \E q \in Queries : IndexPost(q)
    \/ \E q \in Queries : IndexSearch(q)
    \/ Return

Spec == Init /\ [][Next]_vars

(***************************************************************************)
(* The presenters on their own.  display_results reads its ranking         *)
(* argument, and the corpus only to resolve documents[doc_id]; the         *)
(* rankings are descending lists of High entries scoring 2.0, Edge entries *)
(* scoring exactly 1.0 and Low entries scoring 0.75.  The documents hold   *)
(* no token, so the engine built over them has an empty index and table.   *)
(***************************************************************************)
EmptyBook == [title |-> <<>>, author |-> <<>>, description |-> <<>>]

BuiltDocument(book_id, book) ==
    LET doc == Document(book_id, book.title, book.author, book.description)
    IN  [doc EXCEPT !.term_frequencies = ComputeTermFrequencies(doc).term_frequencies]

RankingInput(h, m, l) ==
    [i \in 1..(h + m + l) |->
        IF i <= h THEN [doc_id |-> l + m + i - 1, score |-> Float(2)]
        ELSE IF i <= h + m THEN [doc_id |-> l + i - h - 1, score |-> Float(1)]
        ELSE [doc_id |-> i - h - m - 1, score |-> [num |-> 3 * LnScale, den |-> 4]]]

InitPresent ==
    \E h \in 0..MaxHigh, m \in 0..MaxEdge, l \in 0..MaxLow :
        /\ preprocessed_books = [i \in 1..(h + m + l) |-> EmptyBook]
        /\ documents = [i \in 1..(h + m + l) |-> BuiltDocument(i - 1, EmptyBook)]
        /\ index = EmptyIndex
        /\ idf_scores = EmptyDict
        /\ pc = "serve"
        /\ op = "none"
        /\ query = <<>>
        /\ ranking = RankingInput(h, m, l)
        /\ matching_book_ids = {}
        /\ results = NothingEmitted
        /\ display_args = NoArgs
        /\ raised = "none"

\* display_results(ranking)
DisplayInteractive ==
    /\ pc = "serve"
    /\ results' = DisplayResults(ranking, documents, preprocessed_books)
    /\ display_args' = [threshold |-> InteractiveThreshold, page_size |-> InteractivePageSize]
    /\ op' = "display_interactive"
    /\ pc' = "respond"
    /\ UNCHANGED <<preprocessed_books, documents, index, idf_scores, query, ranking,
                   matching_book_ids, raised>>

\* search_engine.display_results(ranking, threshold, page_size)
DisplayBatch(threshold, page_size) ==
    /\ pc = "serve"
    /\ results' = SearchEngineDisplayResults(ranking, threshold, page_size,
                                             documents, preprocessed_books)
    /\ display_args' = [threshold |-> threshold, page_size |-> page_size]
    /\ op' = "display_batch"
    /\ pc' = "respond"
    /\ UNCHANGED <<preprocessed_books, documents, index, idf_scores, query, ranking,
                   matching_book_ids, raised>>

NextPresent ==
    \/ DisplayInteractive
    \/ \E threshold \in Thresholds, page_size \in PageSizes : DisplayBatch(threshold, page_size)

SpecPresent == InitPresent /\ [][NextPresent]_vars

(***************************************************************************)
(* Properties.                                                             *)
(***************************************************************************)
Built == pc \in {"serve", "respond"}
Searched == pc = "respond" /\ op = "search"
QueryTerms == Range(Split(Lower(query)))
DocSet == Range(documents)
FieldText(d, f) == IF f = "title" THEN d.title
                   ELSE IF f = "author" THEN d.author ELSE d.description
FieldPos(f) == CHOOSE i \in DOMAIN Fields : Fields[i] = f
CorpusTerms == UNION {Range(Split(FieldText(d, Fields[i]))) : d \in DocSet, i \in DOMAIN Fields}

\* C1: the list search returns is ordered by score descending, and two
\* documents of equal score appear in ascending doc_id order.
C1_RankingOrdered ==
    Searched =>
        \A i, j \in DOMAIN ranking :
            i < j => /\ FGeq(ranking[i].score, ranking[j].score)
                     /\ FEq(ranking[i].score, ranking[j].score)
                            => ranking[i].doc_id < ranking[j].doc_id

\* C1 witness: a search returned two documents that tie on a non-zero score.
C1_Witness ==
    /\ Searched
    /\ \E i, j \in DOMAIN ranking :
          /\ i < j
          /\ ranking[i].score.num # 0
          /\ FEq(ranking[i].score, ranking[j].score)

\* C2: search returns exactly one (doc_id, score) pair per document, each
\* doc_id once, documents scoring 0 included.
C2_OnePairPerDocument ==
    Searched =>
        /\ Len(ranking) = Len(documents)
        /\ \A d \in DOMAIN documents :
              Cardinality({i \in DOMAIN ranking : ranking[i].doc_id = documents[d].doc_id}) = 1

\* C2 witness: a search over two documents returned one that scores 0 and
\* one that does not.
C2_Witness ==
    /\ Searched
    /\ Len(documents) = 2
    /\ \E i, j \in DOMAIN ranking : ranking[i].score.num = 0 /\ ranking[j].score.num # 0

\* C3: search never faults on a lookup: every key of every document's
\* term_frequencies has an entry in idf_scores, no KeyError is raised, and a
\* document holding none of the query's terms scores 0.
C3_NoLookupFault ==
    /\ raised # "KeyError"
    /\ Built => \A d \in DocSet : DOMAIN d.term_frequencies \subseteq DOMAIN idf_scores
    /\ Searched =>
          \A i \in DOMAIN ranking :
              QueryTerms \cap DOMAIN documents[ranking[i].doc_id + 1].term_frequencies = {}
                  => ranking[i].score.num = 0

\* C3 witness: a search was served whose query holds a term missing from the
\* IDF table and a term present in a document that another document lacks.
C3_Witness ==
    /\ Searched
    /\ raised = "none"
    /\ \E t \in QueryTerms : t \notin DOMAIN idf_scores
    /\ \E t \in QueryTerms, d, e \in DocSet :
          t \in DOMAIN d.term_frequencies /\ t \notin DOMAIN e.term_frequencies

\* C4: for every document of length > 0 and every token t of its text,
\* term_frequencies[t] * length is the number of tokens of text equal to t,
\* and the value lies in (0, 1].
C4_FrequenciesCountTokens ==
    \A d \in DocSet :
        d.length > 0 =>
            \A t \in Range(Split(d.text)) :
                /\ d.term_frequencies[t].num * d.length
                       = ListCount(Split(d.text), t) * d.term_frequencies[t].den
                /\ 0 < d.term_frequencies[t].num
                /\ d.term_frequencies[t].num <= d.term_frequencies[t].den

\* C5: a document whose fields are all empty is built without an exception,
\* has an empty term_frequencies table and scores 0 in every search.
C5_DegenerateDocumentScoresZero ==
    /\ raised # "ZeroDivisionError"
    /\ pc = "crashed" => raised = "KeyError"
    /\ \A d \in DocSet :
          d.length = 0 =>
              /\ DOMAIN d.term_frequencies = {}
              /\ Searched =>
                    \A i \in DOMAIN ranking :
                        ranking[i].doc_id = d.doc_id => ranking[i].score.num = 0

\* C5 witness: a search that gives some document a non-zero score was served
\* over a corpus holding a document without tokens.
C5_Witness ==
    /\ Searched
    /\ \E d \in DocSet : d.length = 0 /\ d.title = <<>> /\ d.author = <<>> /\ d.description = <<>>
    /\ \E i \in DOMAIN ranking : ranking[i].score.num # 0

\* C6: no engine is produced for a corpus of zero documents.
C6_EmptyCorpusRejected == Built => Len(documents) > 0

Displayed == pc = "respond" /\ op \in {"display_interactive", "display_batch"}
FilteredCount ==
    Cardinality({i \in DOMAIN ranking : FGeq(ranking[i].score, display_args.threshold)})
Ceil(a, b) == CHOOSE k \in 0..a : k * b >= a /\ (k - 1) * b < a
PageHeaders == Len(results.pages)
EntriesEmitted ==
    Cardinality({<<p, k>> \in (DOMAIN results.pages) \X (1..Len(ranking)) :
                    k \in DOMAIN results.pages[p].entries})

\* C7: when count >= 1 entries pass the threshold, the presenter emits
\* ceil(count / page_size) page headers, capped at 10 in the interactive
\* variant and uncapped in the batch variant.
C7_PageHeadersAreCeil ==
    (Displayed /\ FilteredCount >= 1) =>
        PageHeaders = IF op = "display_interactive"
                      THEN Min(Ceil(FilteredCount, display_args.page_size), InteractiveMaxPages)
                      ELSE Ceil(FilteredCount, display_args.page_size)

\* C8: the presenter never emits an entry whose score is below the
\* threshold, and emits min(filtered_count, 10 * p) entries in the capped
\* interactive variant and filtered_count in the batch variant.
C8_EmittedEntries ==
    Displayed =>
        /\ \A p \in DOMAIN results.pages :
              \A k \in DOMAIN results.pages[p].entries :
                  FGeq(results.pages[p].entries[k].score, display_args.threshold)
        /\ EntriesEmitted = IF op = "display_interactive"
                            THEN Min(FilteredCount, InteractiveMaxPages * display_args.page_size)
                            ELSE FilteredCount

\* C8 witness: the interactive presenter was given more qualifying entries
\* than ten pages hold, some scoring exactly the threshold and some below it.
C8_Witness ==
    /\ Displayed
    /\ op = "display_interactive"
    /\ FilteredCount > InteractiveMaxPages * InteractivePageSize
    /\ FilteredCount < Len(ranking)
    /\ \E i \in DOMAIN ranking : FEq(ranking[i].score, display_args.threshold)
    /\ EntriesEmitted = InteractiveMaxPages * InteractivePageSize

KeysOf(term) == {i \in DOMAIN index.keys : Lower(index.keys[i][1]) = term}
LastKeyOf(term) == index.keys[CHOOSE i \in KeysOf(term) : \A j \in KeysOf(term) : j <= i]
Occurrences(term, f) ==
    Cardinality({<<d, k>> \in (DOMAIN documents) \X (1..MaxTokens) :
                    /\ k \in DOMAIN Split(FieldText(documents[d], f))
                    /\ Split(FieldText(documents[d], f))[k] = term})

\* C9: after construction the IDF table has one entry per term of any field
\* of any document, and its value is ln(N / (1 + df)) where df is the length,
\* repeated ids counted, of the posting list of the (term, field) key that
\* comes last for that term in the index's order of first insertion.
C9_IdfLastFieldWins ==
    Built =>
        /\ DOMAIN idf_scores = CorpusTerms
        /\ \A term \in CorpusTerms :
              /\ KeysOf(term) # {}
              /\ Len(index.postings[LastKeyOf(term)])
                     = Occurrences(LastKeyOf(term)[1], LastKeyOf(term)[2])
              /\ idf_scores[term]
                     = [num |-> Ln(Len(documents)) - Ln(1 + Len(index.postings[LastKeyOf(term)])),
                        den |-> 1]

\* C9 witness: an engine was built whose index holds a term under two keys,
\* the last of them a field that precedes the other in a document, with a
\* repeated id in its posting list and a different length from the other's.
C9_Witness ==
    /\ Built
    /\ \E i, j \in DOMAIN index.keys :
          /\ i < j
          /\ index.keys[i][1] = index.keys[j][1]
          /\ index.keys[j] = LastKeyOf(index.keys[j][1])
          /\ FieldPos(index.keys[j][2]) < FieldPos(index.keys[i][2])
          /\ Len(index.postings[index.keys[j]]) # Len(index.postings[index.keys[i]])
          /\ Cardinality(Range(index.postings[index.keys[j]]))
                 < Len(index.postings[index.keys[j]])

\* C10: once the engine is built, no SearchEngine.search or
\* InvertedIndex.search call changes the documents, their term_frequencies,
\* the inverted index or the IDF table.
C10_SearchesLeaveEngineUnchanged ==
    [][Built => UNCHANGED <<preprocessed_books, documents, index, idf_scores>>]_vars

\* C10 witness: InvertedIndex.search was served a query with a token that
\* has no key in a non-empty index.
C10_Witness ==
    /\ pc = "respond"
    /\ op = "index_search"
    /\ index.keys # <<>>
    /\ \E t \in Range(Split(query)) : \A i \in DOMAIN Fields : <<t, Fields[i]>> \notin DOMAIN index.postings

====
